---- MODULE Spec2Model ----
(***************************************************************************)
(* SecureBuffer (SecureBuffer.cpp) and SecureString (SecureString.cpp):    *)
(* move-only owners of heap storage that wipe it before letting go of it.  *)
(*                                                                         *)
(* The two classes belong to two separate programs of the repository and   *)
(* share no state: a behaviour is a run of one of them, `program` says     *)
(* which.                                                                  *)
(*                                                                         *)
(* The heap is a set of allocations, each a byte sequence.  A container    *)
(* object lives in a slot (a program variable); a slot is empty ("none")   *)
(* before construction and after destruction.  Every operation is one      *)
(* atomic action (the program is single-threaded).  A handler is an        *)
(* operator from the state it starts in to the state it ends in, together  *)
(* with the memory events it performed, in order; the history variable     *)
(* `last` says which operation ran last and what kind of events it had.    *)
(***************************************************************************)
EXTENDS Integers, Sequences, FiniteSets, TLC

NObj == 2        \* container variables (slots)
MaxSize == 1     \* largest SecureBuffer size requested
MaxLen == 1      \* longest plaintext given to SecureString
MaxByte == 1     \* byte values are 0..MaxByte
MaxAllocs == NObj

NULL == 0
Slots == 1..NObj
Allocs == 1..MaxAllocs
Byte == 0..MaxByte
Plaintexts == UNION {[1..n -> Byte] : n \in 0..MaxLen}

VARIABLES program, objs, heap, last
vars == <<program, objs, heap, last>>

AllZero(bytes) == \A i \in 1..Len(bytes) : bytes[i] = 0
BytesAt(h, p) == IF p = NULL THEN <<>> ELSE h[p].bytes

NoObj == [kind |-> "none", data |-> NULL, size |-> 0]
NoBlock == [live |-> FALSE, bytes |-> <<>>]

\* One memory event: t is its kind, obj the object acting, a the allocation,
\* n a length, clean whether every byte of a was zero at that moment (for a
\* wipe: just before it).
Event(t, obj, a, n, clean) == [t |-> t, obj |-> obj, a |-> a, n |-> n, clean |-> clean]

Log(m, e) == [m EXCEPT !.ev = Append(@, e)]

----------------------------------------------------------------------------
(* The allocator: operator new[] / std::allocator, operator delete[].      *)

HasFree(h) == \E a \in Allocs : ~h[a].live
NewAlloc(h) == CHOOSE a \in Allocs : ~h[a].live /\ \A b \in 1..(a - 1) : h[b].live

\* new char[n](): n value-initialised (zero) bytes at a fresh address.
Allocate(m, obj, n) ==
    LET p == NewAlloc(m.heap)
    IN  Log([m EXCEPT !.heap[p] = [live |-> TRUE, bytes |-> [i \in 1..n |-> 0]]],
            Event("alloc", obj, p, n, TRUE))

\* operator new[] cannot obtain n bytes: std::bad_alloc is thrown, the heap is
\* as it was.
AllocateFails(m, obj, n) == Log(m, Event("throw", obj, NULL, n, TRUE))

\* delete[] p: whether the content is all zero at that moment is recorded;
\* a free of an allocation that is not live is a double free.
Free(m, obj, p) ==
    Log([m EXCEPT !.heap[p] = NoBlock],
        Event(IF m.heap[p].live THEN "free" ELSE "badfree", obj, p,
              Len(m.heap[p].bytes), AllZero(m.heap[p].bytes)))

\* obj's pointer member changes from what it is to p: obj drops the old
\* allocation and takes the new one.
SetData(m, obj, p) ==
    LET old == m.objs[obj].data
        m1 == IF old = NULL THEN m
              ELSE Log(m, Event("drop", obj, old, 0, AllZero(m.heap[old].bytes)))
        m2 == IF p = NULL THEN m1
              ELSE Log(m1, Event("take", obj, p, 0, AllZero(m.heap[p].bytes)))
    IN  [m2 EXCEPT !.objs[obj].data = p]

----------------------------------------------------------------------------
(* secure_wipe                                                             *)

\* Mutant: *p = 0 without the increment, the first byte is written len times.
WipeLoop_NoAdvance(bytes, p, len) ==
    IF len = 0 \/ p > Len(bytes) THEN bytes ELSE [bytes EXCEPT ![p] = 0]

\* while (len--) { *p++ = 0; }   with p an index into the allocation
RECURSIVE WipeLoop(_, _, _)
WipeLoop(bytes, p, len) ==
    IF len = 0 \/ p > Len(bytes) THEN bytes
    ELSE WipeLoop([bytes EXCEPT ![p] = 0], p + 1, len - 1)

\* The loop run on memory: a write through a null pointer, or past the end
\* of the allocation, is recorded as a fault.
WipeMemory(m, obj, ptr, len) ==
    IF ptr = NULL \/ len > Len(m.heap[ptr].bytes)
    THEN Log(m, Event("fault", obj, ptr, len, FALSE))
    ELSE Log([m EXCEPT !.heap[ptr].bytes = WipeLoop(@, 1, len)],
             Event("wipe", obj, ptr, len, AllZero(m.heap[ptr].bytes)))

SecureBuffer_secure_wipe(m, obj, ptr, len) ==
    IF ptr = NULL \/ len = 0 THEN m ELSE WipeMemory(m, obj, ptr, len)

\* The portable branch (no __STDC_LIB_EXT1__): no null test, the loop body
\* runs len times.
SecureString_secure_wipe(m, obj, ptr, len) ==
    IF len = 0 THEN m ELSE WipeMemory(m, obj, ptr, len)

----------------------------------------------------------------------------
(* SecureBuffer                                                            *)

\* std::fill(first, first + n, 0)
Fill(bytes, n) == [i \in 1..Len(bytes) |-> IF i <= n THEN 0 ELSE bytes[i]]


\* Mutant: new char[s] left as allocated, no fill.
SecureBuffer_ctor_Uninit(m, this, s) ==
    LET p  == NewAlloc(m.heap)
        m1 == Allocate([m EXCEPT !.objs[this] = [NoObj EXCEPT !.kind = "buf"]], this, s)
        m2 == [SetData(m1, this, p) EXCEPT !.objs[this].size = s]
    IN  [m2 EXCEPT !.heap[p].bytes = [i \in 1..s |-> MaxByte]]

\* SecureBuffer(size_t s): data(make_unique<char[]>(s)), size(s), then the fill.
SecureBuffer_ctor(m, this, s) ==
    LET p  == NewAlloc(m.heap)
        m1 == Allocate([m EXCEPT !.objs[this] = [NoObj EXCEPT !.kind = "buf"]], this, s)
        m2 == SetData(m1, this, p)
        m3 == [m2 EXCEPT !.objs[this].size = s]
    IN  IF m3.objs[this].data # NULL
        THEN [m3 EXCEPT !.heap[p].bytes = Fill(@, m3.objs[this].size)]
        ELSE m3


\* Mutant: new (std::nothrow) char[s]: the object comes to be with a null
\* pointer and size s.
SecureBuffer_ctor_throws_Nothrow(m, this, s) ==
    [m EXCEPT !.objs[this] = [kind |-> "buf", data |-> NULL, size |-> s]]

\* SecureBuffer(size_t s) when make_unique throws in the initializer list: no
\* member is constructed, the body does not run, no object comes to be.
SecureBuffer_ctor_throws(m, this, s) == AllocateFails(m, this, s)

\* Mutant: size(other.size), the source's size is not exchanged for 0.
SecureBuffer_move_ctor_KeepSize(m, this, other) ==
    LET p  == m.objs[other].data
        m1 == SetData([m EXCEPT !.objs[this] = [NoObj EXCEPT !.kind = "buf"]], other, NULL)
        m2 == SetData(m1, this, p)
    IN  [m2 EXCEPT !.objs[this].size = m.objs[other].size]

\* Mutant: data(other.data.get()), the source keeps its pointer.
SecureBuffer_move_ctor_Alias(m, this, other) ==
    LET p  == m.objs[other].data
        m1 == SetData([m EXCEPT !.objs[this] = [NoObj EXCEPT !.kind = "buf"]], this, p)
    IN  [m1 EXCEPT !.objs[this].size = m.objs[other].size,
                   !.objs[other].size = 0]

\* SecureBuffer(SecureBuffer&& other): data(std::move(other.data)),
\* size(std::exchange(other.size, 0)).
SecureBuffer_move_ctor(m, this, other) ==
    LET p  == m.objs[other].data
        m1 == SetData([m EXCEPT !.objs[this] = [NoObj EXCEPT !.kind = "buf"]], other, NULL)
        m2 == SetData(m1, this, p)
    IN  [m2 EXCEPT !.objs[this].size = m.objs[other].size,
                   !.objs[other].size = 0]

\* Mutant: swap(data, other.data) alone, the sizes stay where they are.
SwapMembers_DataOnly(m, this, other) ==
    LET p  == m.objs[this].data
        q  == m.objs[other].data
        m1 == SetData(SetData(m, this, NULL), other, NULL)
    IN  SetData(SetData(m1, this, q), other, p)

\* std::swap of the two unique_ptr members and of the two sizes.
SwapMembers(m, this, other) ==
    LET p  == m.objs[this].data
        q  == m.objs[other].data
        m1 == SetData(SetData(m, this, NULL), other, NULL)
        m2 == SetData(SetData(m1, this, q), other, p)
    IN  [m2 EXCEPT !.objs[this].size = m.objs[other].size,
                   !.objs[other].size = m.objs[this].size]


\* Mutant: the swap without the wipe before it.
SecureBuffer_move_assign_NoWipe(m, this, other) ==
    IF this # other THEN SwapMembers(m, this, other) ELSE m

\* Mutant: the swap first, then the wipe of what this holds.
SecureBuffer_move_assign_WipeAfter(m, this, other) ==
    IF this # other
    THEN LET m1 == SwapMembers(m, this, other)
         IN  SecureBuffer_secure_wipe(m1, this, m1.objs[this].data, m1.objs[this].size)
    ELSE m

\* Mutant: no self-assignment test.
SecureBuffer_move_assign_NoSelfTest(m, this, other) ==
    SwapMembers(SecureBuffer_secure_wipe(m, this, m.objs[this].data, m.objs[this].size),
                this, other)

\* operator=(SecureBuffer&& other)
SecureBuffer_move_assign(m, this, other) ==
    IF this # other
    THEN SwapMembers(SecureBuffer_secure_wipe(m, this, m.objs[this].data, m.objs[this].size),
                     this, other)
    ELSE m

\* ~unique_ptr<char[]>: delete[] of a non-null pointer; the slot is no object
\* any more.
ReleaseStorage(m, this) ==
    LET p  == m.objs[this].data
        m1 == IF p # NULL THEN Free(m, this, p) ELSE m
    IN  [m1 EXCEPT !.objs[this] = NoObj]


\* Mutant: the destructor leaves the wipe out.
SecureBuffer_dtor_NoWipe(m, this) == ReleaseStorage(m, this)

\* ~SecureBuffer(): the wipe, then the member's destructor.
SecureBuffer_dtor(m, this) ==
    ReleaseStorage(SecureBuffer_secure_wipe(m, this, m.objs[this].data, m.objs[this].size), this)

data_ptr(o) == o.data
size_bytes(o) == o.size

----------------------------------------------------------------------------
(* std::vector<char>, as SecureString uses it: data is the vector's buffer  *)
(* (NULL when it has none), size its size(); the buffer is allocated with   *)
(* exactly the requested length.                                           *)

\* resize(n) of a vector that holds no buffer: n value-initialised chars.
VectorResize(m, this, n) ==
    LET p == NewAlloc(m.heap)
    IN  [SetData(Allocate(m, this, n), this, p) EXCEPT !.objs[this].size = n]

\* vector(vector&& other): the buffer is taken, other is left empty.
VectorMoveCtor(m, this, other) ==
    LET q  == m.objs[other].data
        m1 == SetData(SetData(m, other, NULL), this, q)
    IN  [m1 EXCEPT !.objs[this].size = m.objs[other].size,
                   !.objs[other].size = 0]

\* Mutant: the buffer this held is not deallocated.
VectorMoveAssign_NoFree(m, this, other) ==
    LET q  == m.objs[other].data
        m1 == [SetData(m, this, q) EXCEPT !.objs[this].size = m.objs[other].size]
    IN  [SetData(m1, other, NULL) EXCEPT !.objs[other].size = 0]

\* data = std::move(other.data) with std::allocator: this takes other's
\* buffer, other is left empty, and the buffer this held is deallocated.
VectorMoveAssign(m, this, other) ==
    LET old == m.objs[this].data
        q   == m.objs[other].data
        m1  == [SetData(m, this, q) EXCEPT !.objs[this].size = m.objs[other].size]
        m2  == [SetData(m1, other, NULL) EXCEPT !.objs[other].size = 0]
    IN  IF old # NULL THEN Free(m2, this, old) ELSE m2

\* clear(): size() becomes 0, the buffer stays.
VectorClear(m, this) == [m EXCEPT !.objs[this].size = 0]

----------------------------------------------------------------------------
(* SecureString                                                            *)

\* std::copy(str.begin(), str.end(), data.begin())
Copy(str, bytes) == [i \in 1..Len(bytes) |-> IF i <= Len(str) THEN str[i] ELSE bytes[i]]


\* Mutant: resize(str.size()), no room for the terminator.
SecureString_ctor_NoTerminator(m, this, str) ==
    LET m1 == VectorResize([m EXCEPT !.objs[this] = [NoObj EXCEPT !.kind = "str"]],
                           this, Len(str))
        p  == m1.objs[this].data
    IN  [m1 EXCEPT !.heap[p].bytes = Copy(str, @)]

\* Mutant: the copy starts at data.begin() + 1 and the zero goes to data[0].
SecureString_ctor_TerminatorFirst(m, this, str) ==
    LET m1 == VectorResize([m EXCEPT !.objs[this] = [NoObj EXCEPT !.kind = "str"]],
                           this, Len(str) + 1)
        p  == m1.objs[this].data
    IN  [m1 EXCEPT !.heap[p].bytes = <<0>> \o str]

\* SecureString(const std::string& str)
SecureString_ctor(m, this, str) ==
    LET m1 == VectorResize([m EXCEPT !.objs[this] = [NoObj EXCEPT !.kind = "str"]],
                           this, Len(str) + 1)
        p  == m1.objs[this].data
        m2 == [m1 EXCEPT !.heap[p].bytes = Copy(str, @)]
    IN  [m2 EXCEPT !.heap[p].bytes[Len(str) + 1] = 0]


\* SecureString(const std::string& str) when resize throws: the vector is
\* unchanged (still empty), the exception leaves the constructor and the
\* member is destroyed; no object comes to be.
SecureString_ctor_throws(m, this, str) ==
    ReleaseStorage(AllocateFails([m EXCEPT !.objs[this] = [NoObj EXCEPT !.kind = "str"]],
                                 this, Len(str) + 1),
                   this)

\* Mutant: the source is wiped before its buffer is taken.
SecureString_move_ctor_WipeFirst(m, this, other) ==
    LET m1 == SecureString_secure_wipe([m EXCEPT !.objs[this] = [NoObj EXCEPT !.kind = "str"]],
                                       other, m.objs[other].data, m.objs[other].size)
    IN  VectorClear(VectorMoveCtor(m1, this, other), other)

\* SecureString(SecureString&& other)
SecureString_move_ctor(m, this, other) ==
    LET m1 == VectorMoveCtor([m EXCEPT !.objs[this] = [NoObj EXCEPT !.kind = "str"]],
                             this, other)
        m2 == SecureString_secure_wipe(m1, other, m1.objs[other].data, m1.objs[other].size)
    IN  VectorClear(m2, other)


\* Mutant: the existing data is not wiped before it is replaced.
SecureString_move_assign_NoWipe(m, this, other) ==
    IF this # other
    THEN LET m2 == VectorMoveAssign(m, this, other)
             m3 == SecureString_secure_wipe(m2, other, m2.objs[other].data, m2.objs[other].size)
         IN  VectorClear(m3, other)
    ELSE m

\* Mutant: wipe, then data.swap(other.data), as SecureBuffer does.
SecureString_move_assign_Swap(m, this, other) ==
    IF this # other
    THEN SwapMembers(SecureString_secure_wipe(m, this, m.objs[this].data, m.objs[this].size),
                     this, other)
    ELSE m

\* operator=(SecureString&& other)
SecureString_move_assign(m, this, other) ==
    IF this # other
    THEN LET m1 == SecureString_secure_wipe(m, this, m.objs[this].data, m.objs[this].size)
             m2 == VectorMoveAssign(m1, this, other)
             m3 == SecureString_secure_wipe(m2, other, m2.objs[other].data, m2.objs[other].size)
         IN  VectorClear(m3, other)
    ELSE m

\* ~SecureString(): the wipe, then ~vector.
SecureString_dtor(m, this) ==
    ReleaseStorage(SecureString_secure_wipe(m, this, m.objs[this].data, m.objs[this].size), this)

c_str(h, o) == BytesAt(h, o.data)

\* Mutant: data.size() - 1 without the test, in 16-bit unsigned arithmetic.
size_NoGuard(o) == (o.size - 1) % 65536

\* size(): data.size() ? data.size() - 1 : 0
size(o) == IF o.size # 0 THEN o.size - 1 ELSE 0

----------------------------------------------------------------------------
(* The program: any sequence of operations on the slots.                   *)

M == [objs |-> objs, heap |-> heap, ev |-> <<>>]

FreeSlots == {o \in Slots : objs[o].kind = "none"}
BufSlots == {o \in Slots : objs[o].kind = "buf"}
StrSlots == {o \in Slots : objs[o].kind = "str"}

EventsOf(m) == {m.ev[i] : i \in 1..Len(m.ev)}

\* Addresses are opaque to the program: a state stands for all its
\* renamings.  AddressOrder lists the addresses, first those the slots hold
\* (live ones, in slot order), then the other live ones, then the ones that
\* are not live; Renamed numbers each address by its place in that list.
In(seq, p) == \E i \in 1..Len(seq) : seq[i] = p

RECURSIVE HeldFrom(_, _, _)
HeldFrom(m, o, acc) ==
    IF o > NObj THEN acc
    ELSE LET p == m.objs[o].data
         IN  HeldFrom(m, o + 1,
                      IF p = NULL \/ ~m.heap[p].live \/ In(acc, p) THEN acc ELSE Append(acc, p))

RECURSIVE OthersFrom(_, _, _, _)
OthersFrom(m, a, live, acc) ==
    IF a > MaxAllocs THEN acc
    ELSE OthersFrom(m, a + 1, live,
                    IF m.heap[a].live # live \/ In(acc, a) THEN acc ELSE Append(acc, a))

AddressOrder(m) == OthersFrom(m, 1, FALSE, OthersFrom(m, 1, TRUE, HeldFrom(m, 1, <<>>)))

Renamed(m) ==
    LET order == AddressOrder(m)
    IN  [objs |-> [o \in Slots |->
                     IF m.objs[o].data = NULL THEN m.objs[o]
                     ELSE [m.objs[o] EXCEPT !.data = CHOOSE r \in Allocs : order[r] = @]],
         heap |-> [r \in Allocs |-> m.heap[order[r]]]]

\* The state after operation `name` on dst (from src) has run to m.
Becomes(m, name, dst, src) ==
    /\ LET n == Renamed(m) IN objs' = n.objs /\ heap' = n.heap
    /\ last' = [op |-> name,
                self |-> dst = src,
                wiped |-> \E e \in EventsOf(m) : e.t = "wipe" /\ ~e.clean,
                freed |-> \E e \in EventsOf(m) : e.t = "free"]
    /\ UNCHANGED program

Init ==
    /\ program \in {"SecureBuffer", "SecureString"}
    /\ objs = [o \in Slots |-> NoObj]
    /\ heap = [a \in Allocs |-> NoBlock]
    /\ last = [op |-> "init", self |-> FALSE, wiped |-> FALSE, freed |-> FALSE]

(* The operations that can run in the current state, and the state m       *)
(* (objects, heap, events) each one's handler ends in.                     *)

MoveCtors == {"buf_move_ctor", "str_move_ctor"}
MoveAssigns == {"buf_move_assign", "str_move_assign"}
Moves == MoveCtors \cup MoveAssigns
Dtors == {"buf_dtor", "str_dtor"}

\* Whether operation op can run on dst (from src; 0 when it has no source).
CanRun(op, dst, src) ==
    CASE op = "buf_move_ctor"   -> dst \in FreeSlots /\ src \in BufSlots
      [] op = "str_move_ctor"   -> dst \in FreeSlots /\ src \in StrSlots
      [] op = "buf_move_assign" -> dst \in BufSlots /\ src \in BufSlots
      [] op = "str_move_assign" -> dst \in StrSlots /\ src \in StrSlots
      [] op = "buf_dtor"        -> dst \in BufSlots /\ src = 0
      [] op = "str_dtor"        -> dst \in StrSlots /\ src = 0
      [] op = "buf_ctor"        -> program = "SecureBuffer" /\ dst \in FreeSlots /\ HasFree(heap)
      [] op = "str_ctor"        -> program = "SecureString" /\ dst \in FreeSlots /\ HasFree(heap)

\* The state a move or a destructor ends in.
After(op, dst, src) ==
    CASE op = "buf_move_ctor"   -> SecureBuffer_move_ctor(M, dst, src)
      [] op = "str_move_ctor"   -> SecureString_move_ctor(M, dst, src)
      [] op = "buf_move_assign" -> SecureBuffer_move_assign(M, dst, src)
      [] op = "str_move_assign" -> SecureString_move_assign(M, dst, src)
      [] op = "buf_dtor"        -> SecureBuffer_dtor(M, dst)
      [] op = "str_dtor"        -> SecureString_dtor(M, dst)

MemoryEvents(m) == {e \in EventsOf(m) : e.t \in {"wipe", "free", "badfree", "fault"}}
Holds(o) == BytesAt(heap, objs[o].data)
HoldsIn(m, o) == BytesAt(m.heap, m.objs[o].data)
Owners(a) == {o \in Slots : objs[o].kind # "none" /\ objs[o].data = a}
FreesOnlyZero(m) == \A e \in EventsOf(m) : e.t \in {"free", "badfree"} => e.clean

ConstructBuffer(this, s) ==
    /\ CanRun("buf_ctor", this, 0)
    /\ Becomes(SecureBuffer_ctor(M, this, s), "buf_ctor", this, 0)

\* make_unique throws std::bad_alloc: no object comes to be.
ConstructBufferFails(this, s) ==
    /\ program = "SecureBuffer"
    /\ this \in FreeSlots
    /\ Becomes(SecureBuffer_ctor_throws(M, this, s), "buf_ctor_fail", this, 0)

ConstructString(this, str) ==
    /\ CanRun("str_ctor", this, 0)
    /\ Becomes(SecureString_ctor(M, this, str), "str_ctor", this, 0)

\* resize throws std::bad_alloc: no object comes to be.
ConstructStringFails(this, str) ==
    /\ program = "SecureString"
    /\ this \in FreeSlots
    /\ Becomes(SecureString_ctor_throws(M, this, str), "str_ctor_fail", this, 0)

\* The caller stores v through data_ptr() at offset i - 1.
WriteData(this, i, v) ==
    /\ this \in BufSlots
    /\ data_ptr(objs[this]) # NULL
    /\ i \in 1..size_bytes(objs[this])
    /\ Becomes([M EXCEPT !.heap[data_ptr(objs[this])].bytes[i] = v], "write", this, 0)

MoveConstructBuffer(this, other) ==
    /\ CanRun("buf_move_ctor", this, other)
    /\ Becomes(After("buf_move_ctor", this, other), "buf_move_ctor", this, other)

MoveAssignBuffer(this, other) ==
    /\ CanRun("buf_move_assign", this, other)
    /\ Becomes(After("buf_move_assign", this, other), "buf_move_assign", this, other)

DestroyBuffer(this) ==
    /\ CanRun("buf_dtor", this, 0)
    /\ Becomes(After("buf_dtor", this, 0), "buf_dtor", this, 0)

MoveConstructString(this, other) ==
    /\ CanRun("str_move_ctor", this, other)
    /\ Becomes(After("str_move_ctor", this, other), "str_move_ctor", this, other)

MoveAssignString(this, other) ==
    /\ CanRun("str_move_assign", this, other)
    /\ Becomes(After("str_move_assign", this, other), "str_move_assign", this, other)

DestroyString(this) ==
    /\ CanRun("str_dtor", this, 0)
    /\ Becomes(After("str_dtor", this, 0), "str_dtor", this, 0)

Next ==
    \/ \E this \in Slots, s \in 0..MaxSize : ConstructBuffer(this, s)
    \/ \E this \in Slots, s \in 0..MaxSize : ConstructBufferFails(this, s)
    \/ \E this \in Slots, str \in Plaintexts : ConstructString(this, str)
    \/ \E this \in Slots, str \in Plaintexts : ConstructStringFails(this, str)
    \/ \E this \in Slots, i \in 1..MaxSize, v \in Byte : WriteData(this, i, v)
    \/ \E this, other \in Slots : MoveConstructBuffer(this, other)
    \/ \E this, other \in Slots : MoveAssignBuffer(this, other)
    \/ \E this \in Slots : DestroyBuffer(this)
    \/ \E this, other \in Slots : MoveConstructString(this, other)
    \/ \E this, other \in Slots : MoveAssignString(this, other)
    \/ \E this \in Slots : DestroyString(this)

Spec == Init /\ [][Next]_vars

TypeOK ==
    /\ program \in {"SecureBuffer", "SecureString"}
    /\ \A o \in Slots : /\ objs[o].kind \in {"none", "buf", "str"}
                        /\ objs[o].data \in {NULL} \cup Allocs
                        /\ objs[o].size \in Nat
    /\ \A a \in Allocs : /\ heap[a].live \in BOOLEAN
                         /\ \A i \in 1..Len(heap[a].bytes) : heap[a].bytes[i] \in Byte

----------------------------------------------------------------------------
(* secure_wipe on its own: a caller that hands either variant any pointer  *)
(* (null, or an allocation) and any length.  Allocation 1 holds arbitrary  *)
(* bytes, every other allocation holds one non-zero byte; `last` says what  *)
(* the last call was and what it did.                                      *)

WipeLens == 0..(MaxSize + 1)
WipePtrs == {NULL} \cup Allocs
WipeContents == UNION {[1..n -> Byte] : n \in WipeLens}

\* The bytes from ptr up to, not including, ptr + len exist.
ValidRange(h, ptr, len) == ptr # NULL /\ h[ptr].live /\ len <= Len(h[ptr].bytes)

InitWipe ==
    /\ program \in {"SecureBuffer", "SecureString"}
    /\ objs = [o \in Slots |-> NoObj]
    /\ \E bytes \in WipeContents :
          heap = [a \in Allocs |-> [live |-> TRUE,
                                    bytes |-> IF a = 1 THEN bytes ELSE <<MaxByte>>]]
    /\ last = [op |-> "init", ptr |-> NULL, len |-> 0,
               wrote |-> FALSE, fault |-> FALSE, again |-> FALSE]

\* The state after a call of secure_wipe(ptr, len) has run to m.
Wiped(m, name, ptr, len) ==
    /\ heap' = m.heap
    /\ objs' = m.objs
    /\ last' = [op |-> name, ptr |-> ptr, len |-> len,
                wrote |-> \E e \in EventsOf(m) : e.t \in {"wipe", "fault"},
                fault |-> \E e \in EventsOf(m) : e.t = "fault",
                again |-> last.op = name /\ last.ptr = ptr /\ last.len = len]
    /\ UNCHANGED program

CallBufferWipe(ptr, len) ==
    /\ program = "SecureBuffer"
    /\ ptr = NULL \/ ValidRange(heap, ptr, len)
    /\ Wiped(SecureBuffer_secure_wipe(M, 0, ptr, len), "buf_wipe", ptr, len)

CallStringWipe(ptr, len) ==
    /\ program = "SecureString"
    /\ ptr = NULL \/ ValidRange(heap, ptr, len)
    /\ Wiped(SecureString_secure_wipe(M, 0, ptr, len), "str_wipe", ptr, len)

NextWipe ==
    \/ \E ptr \in WipePtrs, len \in WipeLens : CallBufferWipe(ptr, len)
    \/ \E ptr \in WipePtrs, len \in WipeLens : CallStringWipe(ptr, len)

WipeSpec == InitWipe /\ [][NextWipe]_vars

----------------------------------------------------------------------------
(* Properties.  "For every op that can run" ranges over the operations     *)
(* enabled in a reachable state; After is the state the operation leaves.  *)

\* C1: an allocation freed by a destructor or by a move is all-zero at the
\* moment of the free, whatever was constructed, written through data_ptr,
\* moved and destroyed before.
C1_FreedStorageIsZero ==
    /\ \A op \in Moves, dst \in Slots, src \in Slots :
          CanRun(op, dst, src) => FreesOnlyZero(After(op, dst, src))
    /\ \A op \in Dtors, dst \in Slots :
          CanRun(op, dst, 0) => FreesOnlyZero(After(op, dst, 0))

\* A SecureBuffer whose storage held non-zero bytes has been destroyed: the
\* wipe overwrote them and the storage was freed.
C1_Witness ==
    /\ last.op = "buf_dtor"
    /\ last.wiped
    /\ last.freed

\* After a = move(b): b has size_bytes() == 0 and holds no storage.
SourceIsReset(m, a, b) ==
    /\ size_bytes(m.objs[b]) = 0
    /\ data_ptr(m.objs[b]) = NULL

\* C2 as stated: after a = move(b) on distinct SecureBuffers, b has
\* size_bytes() == 0 and holds no storage.
C2_SourceIsReset ==
    \A a \in Slots, b \in Slots :
        (a # b /\ CanRun("buf_move_assign", a, b))
            => SourceIsReset(After("buf_move_assign", a, b), a, b)

\* After a = move(b): b holds what a held, all zero, with a's size.
SourceHoldsWipedOld(m, a, b) ==
    /\ data_ptr(m.objs[b]) = data_ptr(objs[a])
    /\ size_bytes(m.objs[b]) = size_bytes(objs[a])
    /\ AllZero(HoldsIn(m, b))

\* C2 amended: after a = move(b) on distinct SecureBuffers, b holds the
\* storage a held before the assignment, every byte of it zero, and
\* size_bytes() of b is the size a had.
C2_SourceHoldsWipedOld ==
    \A a \in Slots, b \in Slots :
        (a # b /\ CanRun("buf_move_assign", a, b))
            => SourceHoldsWipedOld(After("buf_move_assign", a, b), a, b)

\* b has been move-assigned into a distinct a that held non-zero bytes: an
\* object now holds a's wiped storage with a non-zero size.
C2_Witness ==
    /\ last.op = "buf_move_assign" /\ ~last.self
    /\ last.wiped
    /\ \E o \in BufSlots : /\ size_bytes(objs[o]) > 0
                           /\ data_ptr(objs[o]) # NULL
                           /\ AllZero(Holds(o))

\* In the events of a move-assign into a: the storage a held is all-zero
\* when a lets go of it and whenever it is afterwards freed or taken.
WipedBeforeOverwrite(m, a) ==
    \A i \in 1..Len(m.ev) :
        (m.ev[i].t = "drop" /\ m.ev[i].obj = a)
            => /\ m.ev[i].a = objs[a].data
               /\ m.ev[i].clean
               /\ \A j \in (i + 1)..Len(m.ev) :
                     (m.ev[j].a = m.ev[i].a /\ m.ev[j].t \in {"free", "badfree", "take"})
                         => m.ev[j].clean

\* C3: in a move-assign between distinct objects of either class, the
\* storage the destination held is all-zero when the destination lets go of
\* it, and is all-zero whenever it is afterwards freed or taken by an object.
C3_WipeBeforeOverwrite ==
    \A op \in MoveAssigns, a \in Slots, b \in Slots :
        (a # b /\ CanRun(op, a, b)) => WipedBeforeOverwrite(After(op, a, b), a)

\* A SecureString holding non-zero bytes has been move-assigned into from a
\* distinct one: its storage was wiped and freed.
C3_Witness ==
    /\ last.op = "str_move_assign" /\ ~last.self
    /\ last.wiped
    /\ last.freed

\* C4: every live allocation is held by exactly one live object, no object
\* holds an allocation that is not live, and a move makes no allocation.
C4_SingleOwner ==
    /\ \A a \in Allocs : heap[a].live => Cardinality(Owners(a)) = 1
    /\ \A o \in Slots : objs[o].data # NULL => (objs[o].kind # "none" /\ heap[objs[o].data].live)
    /\ \A op \in Moves, dst \in Slots, src \in Slots :
          CanRun(op, dst, src) => \A e \in EventsOf(After(op, dst, src)) : e.t # "alloc"

\* Every slot holds a live object, a move is done, and storage is live.
C4_Witness ==
    /\ last.op \in Moves
    /\ FreeSlots = {}
    /\ \E a \in Allocs : heap[a].live

\* After a move from src to dst: dst holds the bytes and length src held.
TransfersIntact(m, dst, src) ==
    /\ HoldsIn(m, dst) = Holds(src)
    /\ m.objs[dst].size = objs[src].size
    /\ size(m.objs[dst]) = size(objs[src])

\* C5: after a move-construct, or a move-assign between distinct objects,
\* of either class, the destination holds the very bytes and the length the
\* source held before the move.
C5_MoveTransfersIntact ==
    \A op \in Moves, dst \in Slots, src \in Slots :
        (dst # src /\ CanRun(op, dst, src)) => TransfersIntact(After(op, dst, src), dst, src)

\* A SecureString of the largest length ending in a non-zero byte is held
\* after a move between distinct strings.
C5_Witness ==
    /\ last.op \in {"str_move_ctor", "str_move_assign"} /\ ~last.self
    /\ \E o \in StrSlots : size(objs[o]) = MaxLen /\ c_str(heap, objs[o])[MaxLen] # 0

\* o has no storage and size() 0.
StringIsEmpty(m, o) ==
    /\ m.objs[o].data = NULL
    /\ m.objs[o].size = 0
    /\ size(m.objs[o]) = 0

C8_SelfAssignIsNoOp ==
    \A op \in MoveAssigns, a \in Slots :
        CanRun(op, a, a) => After(op, a, a) = M

\* A SecureBuffer has been assigned to itself and holds a non-zero byte.
C8_Witness ==
    /\ last.op = "buf_move_assign" /\ last.self
    /\ \E o \in BufSlots : ~AllZero(Holds(o))

\* this is a SecureBuffer of n bytes, all zero.
IsZeroBuffer(m, this, n) ==
    /\ size_bytes(m.objs[this]) = n
    /\ data_ptr(m.objs[this]) # NULL
    /\ Len(HoldsIn(m, this)) = n
    /\ AllZero(HoldsIn(m, this))

\* C9: SecureBuffer(n) has size_bytes() == n and owns n bytes, all zero.
C9_ZeroInit ==
    \A n \in 0..MaxSize, this \in Slots :
        CanRun("buf_ctor", this, 0) => IsZeroBuffer(SecureBuffer_ctor(M, this, n), this, n)

\* A SecureBuffer of the largest size has been constructed.
C9_Witness ==
    /\ last.op = "buf_ctor"
    /\ \E o \in BufSlots : size_bytes(objs[o]) = MaxSize /\ Len(Holds(o)) = MaxSize

\* this is a SecureString that reads s.
ReadsBack(m, this, s) ==
    /\ c_str(m.heap, m.objs[this]) = s \o <<0>>
    /\ m.objs[this].size = Len(s) + 1
    /\ size(m.objs[this]) = Len(s)

\* C10: SecureString(s) owns len(s) + 1 bytes, s followed by one zero byte,
\* and size() == len(s).
C10_RoundTrip ==
    \A s \in Plaintexts, this \in Slots :
        CanRun("str_ctor", this, 0) => ReadsBack(SecureString_ctor(M, this, s), this, s)

\* A SecureString has been constructed from a plaintext of the largest
\* length that ends in a non-zero byte.
C10_Witness ==
    /\ last.op = "str_ctor"
    /\ \E o \in StrSlots : size(objs[o]) = MaxLen /\ c_str(heap, objs[o])[MaxLen] # 0

\* C11: size() of every SecureString is its storage length less one when the
\* storage is not empty and 0 when it is empty; the storage length is the
\* length of the buffer held (0 when none is held); and size() of the source
\* of a move between distinct strings is 0.
C11_NoUnderflow ==
    /\ \A o \in StrSlots :
          /\ objs[o].size = Len(Holds(o))
          /\ size(objs[o]) = IF Len(Holds(o)) > 0 THEN Len(Holds(o)) - 1 ELSE 0
    /\ \A op \in {"str_move_ctor", "str_move_assign"}, dst \in Slots, src \in Slots :
          (dst # src /\ CanRun(op, dst, src)) => size(After(op, dst, src).objs[src]) = 0

\* A moved-from SecureString, with empty storage, stands next to one that
\* holds a plaintext of the largest length.
C11_Witness ==
    /\ last.op \in {"str_move_ctor", "str_move_assign"} /\ ~last.self
    /\ \E o \in StrSlots : objs[o].size = 0 /\ objs[o].data = NULL
    /\ \E o \in StrSlots : objs[o].size = MaxLen + 1

\* The last byte of o's storage is zero when the storage is not empty.
TerminatorIsZero(m, o) ==
    m.objs[o].size > 0 =>
        /\ m.objs[o].size = Len(HoldsIn(m, o))
        /\ HoldsIn(m, o)[m.objs[o].size] = 0

\* C12: in every reachable state every SecureString whose storage is not
\* empty has a zero byte as the last byte of its storage, and it still has
\* after secure_wipe(data.data(), data.size()) has run on it.
C12_TerminatorIsZero ==
    \A o \in StrSlots :
        /\ TerminatorIsZero(M, o)
        /\ TerminatorIsZero(SecureString_secure_wipe(M, o, objs[o].data, objs[o].size), o)

\* After a move between distinct strings, a SecureString holds a non-zero
\* plaintext byte followed by its terminator.
C12_Witness ==
    /\ last.op \in {"str_move_ctor", "str_move_assign"} /\ ~last.self
    /\ \E o \in StrSlots : /\ objs[o].size > 1
                           /\ Holds(o)[objs[o].size - 1] # 0
                           /\ Holds(o)[objs[o].size] = 0

\* A construction that could not get its memory: std::bad_alloc is thrown,
\* no object and no allocation is there that was not there before, and
\* objects and memory are as they were.
FailsWithNothing(m, this) ==
    /\ \E e \in EventsOf(m) : e.t = "throw"
    /\ m.objs[this] = NoObj
    /\ m.objs = objs
    /\ m.heap = heap

\* An operation that runs to its end: nothing is thrown, no write goes
\* through a null pointer or past an allocation, no free is a double free.
Succeeds(m) == \A e \in EventsOf(m) : e.t \notin {"throw", "fault", "badfree"}

\* C13: a SecureBuffer(s) or SecureString(str) whose memory request fails
\* throws and leaves no object and no allocation, with every existing
\* object and byte unchanged; a construction that gets its memory, a move
\* and a destruction do not fail.
C13_AllocationFailureIsAllOrNothing ==
    /\ \A this \in FreeSlots :
          /\ \A s \in 0..MaxSize : FailsWithNothing(SecureBuffer_ctor_throws(M, this, s), this)
          /\ \A str \in Plaintexts : FailsWithNothing(SecureString_ctor_throws(M, this, str), this)
    /\ \A this \in Slots :
          /\ CanRun("buf_ctor", this, 0)
                => \A s \in 0..MaxSize : Succeeds(SecureBuffer_ctor(M, this, s))
          /\ CanRun("str_ctor", this, 0)
                => \A str \in Plaintexts : Succeeds(SecureString_ctor(M, this, str))
    /\ \A op \in Moves, dst \in Slots, src \in Slots :
          CanRun(op, dst, src) => Succeeds(After(op, dst, src))
    /\ \A op \in Dtors, dst \in Slots :
          CanRun(op, dst, 0) => Succeeds(After(op, dst, 0))

\* A construction has failed while another object held non-zero bytes.
C13_Witness ==
    /\ last.op \in {"buf_ctor_fail", "str_ctor_fail"}
    /\ FreeSlots # {}
    /\ \E o \in Slots : objs[o].kind # "none" /\ ~AllZero(Holds(o))

WipedExactly(m, ptr, len) ==
    /\ m.objs = objs
    /\ \A a \in Allocs :
          /\ m.heap[a].live = heap[a].live
          /\ Len(m.heap[a].bytes) = Len(heap[a].bytes)
          /\ \A i \in 1..Len(heap[a].bytes) :
                m.heap[a].bytes[i] = IF a = ptr /\ i <= len THEN 0 ELSE heap[a].bytes[i]

\* C15: secure_wipe(ptr, len) of either class, with ptr not null and the len
\* bytes at ptr existing, sets exactly those len bytes to zero and changes no
\* other byte; a second wipe of the same range changes nothing more.
C15_WipeExactAndIdempotent ==
    \A ptr \in Allocs, len \in WipeLens :
        ValidRange(heap, ptr, len) =>
            LET b1 == SecureBuffer_secure_wipe(M, 0, ptr, len)
                b2 == SecureBuffer_secure_wipe(b1, 0, ptr, len)
                s1 == SecureString_secure_wipe(M, 0, ptr, len)
                s2 == SecureString_secure_wipe(s1, 0, ptr, len)
            IN  /\ WipedExactly(b1, ptr, len) /\ b2.heap = b1.heap /\ b2.objs = b1.objs
                /\ WipedExactly(s1, ptr, len) /\ s2.heap = s1.heap /\ s2.objs = s1.objs

\* The same non-empty range has been wiped twice in a row: it is zero, and
\* a non-zero byte after it, and one in another allocation, are still there.
C15_Witness ==
    /\ last.op \in {"buf_wipe", "str_wipe"} /\ last.again
    /\ last.ptr # NULL /\ last.len > 0
    /\ \A i \in 1..last.len : heap[last.ptr].bytes[i] = 0
    /\ \E i \in (last.len + 1)..Len(heap[last.ptr].bytes) : heap[last.ptr].bytes[i] # 0
    /\ \E a \in Allocs : a # last.ptr /\ ~AllZero(heap[a].bytes)

\* No non-zero byte can be read through o: it holds no storage, or storage
\* whose bytes are all zero.
NothingToRead(m, o) == m.objs[o].data = NULL \/ AllZero(HoldsIn(m, o))

\* C16: after a move-construct, or a move-assign between distinct objects,
\* of either class, the source holds no storage or storage whose bytes are
\* all zero.
C16_SourceHoldsNoSecret ==
    \A op \in Moves, dst \in Slots, src \in Slots :
        (dst # src /\ CanRun(op, dst, src)) => NothingToRead(After(op, dst, src), src)

\* After a move between distinct objects that wiped non-zero bytes, one
\* object holds non-zero bytes and another holds storage that is all zero.
C16_Witness ==
    /\ last.op \in Moves /\ ~last.self /\ last.wiped
    /\ \E o \in Slots : objs[o].kind # "none" /\ ~AllZero(Holds(o))
    /\ \E o \in Slots : /\ objs[o].kind # "none"
                        /\ Len(Holds(o)) > 0
                        /\ AllZero(Holds(o))

\* Every wipe of the operation covers the whole allocation it is made on,
\* and no write goes through a null pointer or past the end of one.
WipesWholeAllocation(m) ==
    \A e \in EventsOf(m) :
        /\ e.t # "fault"
        /\ e.t = "wipe" => e.n = Len(heap[e.a].bytes)

\* C17: the size a SecureBuffer records is the byte length of the
\* allocation it holds, and 0 when it holds none; the secure_wipe(data, size)
\* of a move-assign and of the destructor covers the whole allocation and
\* does not write past its end.
C17_SizeIsAllocationLength ==
    /\ \A o \in BufSlots :
          /\ size_bytes(objs[o]) = Len(Holds(o))
          /\ data_ptr(objs[o]) # NULL => heap[data_ptr(objs[o])].live
    /\ \A dst \in Slots, src \in Slots :
          CanRun("buf_move_assign", dst, src)
              => WipesWholeAllocation(After("buf_move_assign", dst, src))
    /\ \A dst \in Slots :
          CanRun("buf_dtor", dst, 0) => WipesWholeAllocation(After("buf_dtor", dst, 0))

\* Two SecureBuffers of different sizes have been move-assigned, one into
\* the other, and non-zero bytes were wiped.
C17_Witness ==
    /\ last.op = "buf_move_assign" /\ ~last.self /\ last.wiped
    /\ \E o1 \in BufSlots, o2 \in BufSlots :
          /\ data_ptr(objs[o1]) # NULL /\ data_ptr(objs[o2]) # NULL
          /\ size_bytes(objs[o1]) # size_bytes(objs[o2])

\* Every free of the operation is of an allocation that is live at that
\* moment, and no allocation is freed twice by it.
FreesOnce(m) ==
    /\ \A e \in EventsOf(m) : e.t # "badfree"
    /\ \A i \in 1..Len(m.ev), j \in 1..Len(m.ev) :
          (i < j /\ m.ev[i].t = "free" /\ m.ev[j].t = "free") => m.ev[i].a # m.ev[j].a

\* C18: no move and no destructor frees an allocation that is not live or
\* frees one twice, and when every object has been destroyed no allocation
\* is live.
C18_NoDoubleFreeNoLeak ==
    /\ \A op \in Moves, dst \in Slots, src \in Slots :
          CanRun(op, dst, src) => FreesOnce(After(op, dst, src))
    /\ \A op \in Dtors, dst \in Slots :
          CanRun(op, dst, 0) => FreesOnce(After(op, dst, 0))
    /\ FreeSlots = Slots => \A a \in Allocs : ~heap[a].live

\* The last object has been destroyed, its storage freed, and no object is
\* left.
C18_Witness ==
    /\ last.op \in Dtors /\ last.freed
    /\ FreeSlots = Slots

====
